---- MODULE Spec2Model ----
\* A model of mcp-portainer-bridge (src/server.js): the tool-call handler, its
\* confirmation gate, the handlers' remote calls and the error translation.
\*
\* Representation of JavaScript values:
\*   - a string the code inspects character by character (an action name, a
\*     container id) is a tuple of one-character strings;
\*   - a string the code only passes on (a tool name, a message) is a string;
\*   - an arguments object is a record of its fields plus `given`, the set of
\*     the field names the caller supplied; a field that is not in `given` is
\*     undefined in the code.
EXTENDS Integers, Sequences, FiniteSets, TLC

VARIABLES
    PORTAINER_TOKEN, \* the credential read at start-up (server.js:16)
    pc,              \* where the handler of the current invocation stands
    request,         \* request.params of the current invocation
    calls,           \* the remote calls the current invocation has issued
    outcome,         \* what the handler returned or threw
    remote,          \* the remote API's containers
    rcInput,         \* requiresConfirmation: the argument
    rcResult,        \* requiresConfirmation: the value returned
    memo,            \* an earlier invocation, kept to compare later ones with
    listed           \* the tools of the last tools/list response

vars ==
    <<PORTAINER_TOKEN, pc, request, calls, outcome, remote, rcInput, rcResult, memo, listed>>

-----------------------------------------------------------------------------
\* Characters and strings

UpperLetters ==
    <<"A","B","C","D","E","F","G","H","I","J","K","L","M",
      "N","O","P","Q","R","S","T","U","V","W","X","Y","Z">>

LowerLetters ==
    <<"a","b","c","d","e","f","g","h","i","j","k","l","m",
      "n","o","p","q","r","s","t","u","v","w","x","y","z">>

IsUpper(c) == \E k \in 1..Len(UpperLetters) : UpperLetters[k] = c

LowerChar(c) ==
    IF IsUpper(c)
    THEN LowerLetters[CHOOSE k \in 1..Len(UpperLetters) : UpperLetters[k] = c]
    ELSE c

\* String.prototype.toLowerCase
toLowerCaseNoop(s) == s
toLowerCase(s) == [i \in 1..Len(s) |-> LowerChar(s[i])]

\* String.prototype.includes: a scan over the start positions
RECURSIVE includesFrom(_, _, _)
includesFrom(s, w, i) ==
    IF i + Len(w) > Len(s) THEN FALSE
    ELSE IF SubSeq(s, i + 1, i + Len(w)) = w THEN TRUE
    ELSE includesFrom(s, w, i + 1)

includes(s, w) == includesFrom(s, w, 0)

\* String.prototype.substring(a, b), 0 <= a <= b
substring(s, a, b) ==
    SubSeq(s, a + 1, IF b < Len(s) THEN b ELSE Len(s))

\* the text of `${undefined}`
UndefinedText == <<"u","n","d","e","f","i","n","e","d">>

-----------------------------------------------------------------------------
\* requiresConfirmation (server.js:28-31)

W_remove  == <<"r","e","m","o","v","e">>
W_delete  == <<"d","e","l","e","t","e">>
W_stop    == <<"s","t","o","p">>
W_restart == <<"r","e","s","t","a","r","t">>
W_kill    == <<"k","i","l","l">>
W_prune   == <<"p","r","u","n","e">>

dangerous == <<W_remove, W_delete, W_stop, W_restart, W_kill, W_prune>>

\* Array.prototype.some over `dangerous`, in order
RECURSIVE someDangerous(_, _)
someDangerous(lowered, i) ==
    IF i > Len(dangerous) THEN FALSE
    ELSE IF includes(lowered, dangerous[i]) THEN TRUE
    ELSE someDangerous(lowered, i + 1)

requiresConfirmation(action) == someDangerous(toLowerCase(action), 1)

-----------------------------------------------------------------------------
\* Configuration (server.js:15-17)

\* process.env.PORTAINER_TOKEN: unset, set to the empty string, or set
TokenValues ==
    { [set |-> FALSE, value |-> ""],
      [set |-> TRUE,  value |-> ""],
      [set |-> TRUE,  value |-> "ptr_key"] }

\* !PORTAINER_TOKEN
TokenMissingNever(token) == FALSE
TokenMissing(token) == ~token.set \/ token.value = ""

-----------------------------------------------------------------------------
\* Values of the tool protocol

\* the names the switch of the handler knows (server.js:267-314)
T_list_containers  == "portainer_list_containers"
T_container_info   == "portainer_container_info"
T_container_logs   == "portainer_container_logs"
T_container_action == "portainer_container_action"
T_create_container == "portainer_create_container"
T_list_images      == "portainer_list_images"
T_list_volumes     == "portainer_list_volumes"
T_list_networks    == "portainer_list_networks"
T_system_info      == "portainer_system_info"
T_deploy_stack     == "portainer_deploy_stack"

SwitchCases ==
    { T_list_containers, T_container_info, T_container_logs, T_container_action,
      T_create_container, T_list_images, T_list_volumes, T_list_networks,
      T_system_info, T_deploy_stack }

\* The registry the tools/list handler answers with (server.js:58-253): of
\* each descriptor its name and the required array of its inputSchema, empty
\* where the schema has none.
D_list_containers  == [name |-> "portainer_list_containers",  required |-> <<>>]
D_container_info   == [name |-> "portainer_container_info",   required |-> <<"container_id">>]
D_container_logs   == [name |-> "portainer_container_logs",   required |-> <<"container_id">>]
D_container_action == [name |-> "portainer_container_action", required |-> <<"container_id", "action">>]
D_create_container == [name |-> "portainer_create_container",
                       required |-> <<"name", "image", "confirm">>]
D_list_images      == [name |-> "portainer_list_images",      required |-> <<>>]
D_list_volumes     == [name |-> "portainer_list_volumes",     required |-> <<>>]
D_list_networks    == [name |-> "portainer_list_networks",    required |-> <<>>]
D_system_info      == [name |-> "portainer_system_info",      required |-> <<>>]
D_deploy_stack     == [name |-> "portainer_deploy_stack",
                       required |-> <<"name", "compose_content", "confirm">>]

toolsListContainersTwice ==
    << D_list_containers, D_container_info, D_container_logs, D_container_action,
       D_create_container, D_list_images, D_list_volumes, D_list_networks,
       D_system_info, D_list_containers >>
tools ==
    << D_list_containers, D_container_info, D_container_logs, D_container_action,
       D_create_container, D_list_images, D_list_volumes, D_list_networks,
       D_system_info, D_deploy_stack >>

\* The text of a result or of an error message: the template and the values
\* interpolated into it.
NoText ==
    [tmpl |-> "", action |-> <<>>, id |-> <<>>, name |-> "", status |-> 0,
     body |-> "", tail |-> 0, count |-> 0, lines |-> <<>>]

\* error.response of an error thrown by axios: present for an HTTP answer
\* outside 2xx, absent for a transport failure and for every other error
\* A response body. `list` is the array of a listing (the body itself, or
\* its Volumes field), Mounts and Env are those of a container inspection,
\* and `has` names the optional fields the body carries.
NoData ==
    [isText |-> FALSE, raw |-> "", Id |-> <<>>, list |-> <<>>, has |-> {},
     Mounts |-> <<>>, Env |-> <<>>]

NoResponse == [present |-> FALSE, status |-> 0, data |-> NoData]

NoError == [cls |-> "", code |-> "", text |-> NoText, response |-> NoResponse]

NoOutcome == [kind |-> "none", error |-> NoError, text |-> NoText]

\* return { content: [ { type: 'text', text } ] }
ToolResult(text) == [kind |-> "result", error |-> NoError, text |-> text]

\* throw error
Thrown(error) == [kind |-> "error", error |-> error, text |-> NoText]

\* JSON.stringify of a response body; a body is a text (responseType 'text',
\* or a remote that answers in plain text) or a JSON document
JSONstringify(data) ==
    IF data.isText THEN "\"" \o data.raw \o "\"" ELSE data.raw

\* new McpError(code, message)
McpError(code, text) ==
    [cls |-> "McpError", code |-> code, text |-> text, response |-> NoResponse]

\* the TypeError of reading a property of undefined
TypeError ==
    [cls |-> "TypeError", code |-> "", text |-> [NoText EXCEPT !.tmpl = "TypeError"],
     response |-> NoResponse]

\* the catch of the handler (server.js:333-341)
CatchWrapsAll(error) ==
    McpError("InternalError",
             [NoText EXCEPT !.tmpl = "Portainer API error: ${status} - ${data}",
                            !.status = error.response.status,
                            !.body = JSONstringify(error.response.data)])
CatchDropsStatus(error) ==
    IF error.response.present
    THEN McpError("InternalError",
                  [NoText EXCEPT !.tmpl = "Portainer API error: ${status} - ${data}"])
    ELSE error
CatchDropsTransportText(error) ==
    IF error.response.present
    THEN McpError("InternalError",
                  [NoText EXCEPT !.tmpl = "Portainer API error: ${status} - ${data}",
                                 !.status = error.response.status,
                                 !.body = JSONstringify(error.response.data)])
    ELSE IF error.cls = "AxiosError"
    THEN McpError("InternalError", [NoText EXCEPT !.tmpl = "Request failed"])
    ELSE error
Catch(error) ==
    IF error.response.present
    THEN McpError("InternalError",
                  [NoText EXCEPT !.tmpl = "Portainer API error: ${status} - ${data}",
                                 !.status = error.response.status,
                                 !.body = JSONstringify(error.response.data)])
    ELSE error

-----------------------------------------------------------------------------
\* Arguments and remote calls

\* an arguments object with no field supplied
EmptyArgs ==
    [given |-> {}, all |-> FALSE, container_id |-> <<>>, tail |-> 0,
     action |-> <<>>, confirm |-> FALSE, name |-> "", image |-> "", env |-> <<>>,
     ports |-> <<>>, volumes |-> <<>>, restart_policy |-> "",
     compose_content |-> ""]

Given(args, f) == f \in args.given

\* `${value}` of a field that holds a character string
TextOf(args, f, value) == IF Given(args, f) THEN value ELSE UndefinedText

\* `${value}` of a field that holds a plain string
PlainOf(args, f, value) == IF Given(args, f) THEN value ELSE "undefined"

\* !args.confirm
NotConfirmedNever(args) == FALSE
NotConfirmedUnlessWarned(args) ==
    /\ ~(Given(args, "confirm") /\ args.confirm)
    /\ ~(memo.taken /\ memo.outcome.kind = "result" /\ memo.calls = <<>>)
NotConfirmed(args) == ~(Given(args, "confirm") /\ args.confirm)

\* PORTAINER_ENDPOINT_ID (server.js:17) is part of every docker route; the
\* routes are named by what follows /api/endpoints/${PORTAINER_ENDPOINT_ID}/docker
R_containers_json   == "/containers/json"
R_container_json    == "/containers/${containerId}/json"
R_container_logs    == "/containers/${containerId}/logs"
R_container_action  == "/containers/${containerId}/${action}"
R_containers_create == "/containers/create"
R_images_json       == "/images/json"
R_volumes           == "/volumes"
R_networks          == "/networks"
R_info              == "/info"
R_stacks            == "/api/stacks?endpointId=${PORTAINER_ENDPOINT_ID}&method=string&type=2"

NoQuery == [all |-> "", tail |-> -1, name |-> ""]

NoBody ==
    [kind |-> "", Image |-> "", name |-> "", Env |-> <<>>, RestartPolicy |-> "",
     ExposedPorts |-> {}, PortBindings |-> {}, Binds |-> <<>>,
     StackFileContent |-> ""]

Pending == [kind |-> "pending", status |-> 0, data |-> NoData, code |-> "", message |-> ""]

\* a call of api.get / api.post that has been issued
Call(method, route, id, action, query, body) ==
    [method |-> method, route |-> route, id |-> id, action |-> action,
     query |-> query, body |-> body, resp |-> Pending]

\* What a stretch of the handler ends with: it awaits a remote call, returns
\* a text, or throws.
Await(call)  == [kind |-> "await", call |-> call, text |-> NoText, error |-> NoError]
Return(text) == [kind |-> "return", call |-> Call("", "", <<>>, <<>>, NoQuery, NoBody),
                 text |-> text, error |-> NoError]
Throw(error) == [kind |-> "throw", call |-> Call("", "", <<>>, <<>>, NoQuery, NoBody),
                 text |-> NoText, error |-> error]

-----------------------------------------------------------------------------
\* The handlers (server.js:345-582). A handler is an async method: the
\* definition of its name is the stretch up to its first await, and the
\* definitions named ...Then are the stretches that follow an answer.

\* tail = 100 (server.js:392)
DefaultTail == 100

\* listContainers(all = true) (server.js:345-348)
listContainers(args) ==
    Await(Call("GET", R_containers_json, <<>>, <<>>,
               [NoQuery EXCEPT !.all = IF Given(args, "all") /\ ~args.all
                                       THEN "false" ELSE "true"],
               NoBody))

\* Array.prototype.join of strings
RECURSIVE join(_, _)
join(strs, sep) ==
    IF Len(strs) = 0 THEN ""
    ELSE IF Len(strs) = 1 THEN strs[1]
    ELSE strs[1] \o sep \o join(Tail(strs), sep)

\* String.prototype.replace(c, ''): the first occurrence of c is removed
RECURSIVE replace(_, _)
replace(s, c) ==
    IF Len(s) = 0 THEN s
    ELSE IF s[1] = c THEN Tail(s)
    ELSE <<s[1]>> \o replace(Tail(s), c)

\* an item line of a listing
NoLine == [name |-> <<>>, id |-> <<>>, text |-> ""]

\* p.PublicPort ? `${p.PublicPort}:${p.PrivatePort}` : `${p.PrivatePort}`
\* (server.js:356); a PublicPort of 0 stands for one that is absent
PortText(p) ==
    IF p.PublicPort # 0
    THEN ToString(p.PublicPort) \o ":" \o ToString(p.PrivatePort)
    ELSE ToString(p.PrivatePort)

\* c => ({ id, name, ..., ports }) and its line (server.js:350-357, 364);
\* c.Ports.map is only reached for an entry that has a port list
ContainerLine(c) ==
    LET ports == join([i \in 1..Len(c.Ports) |-> PortText(c.Ports[i])], ", ") IN
    [NoLine EXCEPT !.id = substring(c.Id, 0, 12),
                   !.name = replace(c.Name, "/"),
                   !.text = IF ports = "" THEN "none" ELSE ports]

\* (server.js:350-368); c.Ports.map throws for an entry without a port list
listContainersThen(response) ==
    LET list == response.data.list IN
    IF \E i \in 1..Len(list) : "Ports" \notin list[i].has
    THEN Throw(TypeError)
    ELSE Return([NoText EXCEPT !.tmpl = "Found ${containers.length} containers:",
                               !.count = Len(list),
                               !.lines = [i \in 1..Len(list) |-> ContainerLine(list[i])]])

\* getContainerInfo(containerId) (server.js:371-372)
getContainerInfo(args) ==
    Await(Call("GET", R_container_json,
               TextOf(args, "container_id", args.container_id), <<>>,
               NoQuery, NoBody))

\* `  - ${m.Source} -> ${m.Destination}` (server.js:385)
MountText(m) == "  - " \o m.Source \o " -> " \o m.Destination

\* (server.js:373-389); c.Config.Env.map and c.Mounts.map throw when the
\* field is absent
getContainerInfoThen(response) ==
    LET c == response.data
        mounts == join([i \in 1..Len(c.Mounts) |-> MountText(c.Mounts[i])], "\n")
    IN
    IF "Env" \notin c.has \/ "Mounts" \notin c.has
    THEN Throw(TypeError)
    ELSE Return([NoText EXCEPT !.tmpl = "Container: ${c.Name} (${c.Id})",
                               !.id = substring(c.Id, 0, 12),
                               !.count = Len(c.Env),
                               !.body = IF mounts = "" THEN "  none" ELSE mounts])

\* getContainerLogs(containerId, tail = 100) (server.js:392-403)
getContainerLogs(args) ==
    Await(Call("GET", R_container_logs,
               TextOf(args, "container_id", args.container_id), <<>>,
               [NoQuery EXCEPT !.tail = IF Given(args, "tail") THEN args.tail
                                        ELSE DefaultTail],
               NoBody))

\* (server.js:405-412)
getContainerLogsThen(args, response) ==
    Return([NoText EXCEPT
              !.tmpl = "Logs for container ${containerId} (last ${tail} lines):",
              !.id = TextOf(args, "container_id", args.container_id),
              !.tail = IF Given(args, "tail") THEN args.tail ELSE DefaultTail,
              !.body = response.data.raw])

\* containerAction(containerId, action) (server.js:415-416)
containerActionOnCreateRoute(args) ==
    Await(Call("POST", R_containers_create,
               TextOf(args, "container_id", args.container_id),
               TextOf(args, "action", args.action), NoQuery, NoBody))
containerAction(args) ==
    Await(Call("POST", R_container_action,
               TextOf(args, "container_id", args.container_id),
               TextOf(args, "action", args.action), NoQuery, NoBody))

\* (server.js:418-425)
containerActionThen(args) ==
    Return([NoText EXCEPT
              !.tmpl = "Successfully performed '${action}' on container ${containerId}",
              !.action = TextOf(args, "action", args.action),
              !.id = TextOf(args, "container_id", args.container_id)])

\* `${p.container}/tcp` (server.js:446)
PortKey(p) == ToString(p.container) \o "/tcp"

\* config.ExposedPorts (server.js:445-446): the keys assigned
ExposedPorts(ports) == { PortKey(ports[i]) : i \in 1..Len(ports) }

\* config.HostConfig.PortBindings (server.js:447-449): a later mapping of the
\* same container port overwrites an earlier one
PortBindings(ports) ==
    { <<PortKey(ports[i]), ToString(ports[i].host)>> :
        i \in { k \in 1..Len(ports) :
                  \A j \in (k + 1)..Len(ports) : PortKey(ports[j]) # PortKey(ports[k]) } }

\* config.HostConfig.Binds (server.js:455)
Binds(volumes) == [i \in 1..Len(volumes) |-> volumes[i].host \o ":" \o volumes[i].container]

\* the creation payload (server.js:429-456)
config(args) ==
    [kind |-> "container",
     Image |-> PlainOf(args, "image", args.image),
     name |-> PlainOf(args, "name", args.name),
     Env |-> IF Given(args, "env") THEN args.env ELSE <<>>,
     RestartPolicy |-> IF Given(args, "restart_policy") /\ args.restart_policy # ""
                       THEN args.restart_policy ELSE "unless-stopped",
     ExposedPorts |-> IF Given(args, "ports") THEN ExposedPorts(args.ports) ELSE {},
     PortBindings |-> IF Given(args, "ports") THEN PortBindings(args.ports) ELSE {},
     Binds |-> IF Given(args, "volumes") THEN Binds(args.volumes) ELSE <<>>,
     StackFileContent |-> ""]

\* createContainer(args) (server.js:428-462)
createContainer(args) ==
    Await(Call("POST", R_containers_create, <<>>, <<>>,
               [NoQuery EXCEPT !.name = IF Given(args, "name") THEN args.name ELSE ""],
               config(args)))

A_start == <<"s","t","a","r","t">>

\* (server.js:464-466)
createContainerThenStartsFixedId(createResponse) ==
    Await(Call("POST", R_container_action, UndefinedText, A_start, NoQuery, NoBody))
createContainerThen(createResponse) ==
    Await(Call("POST", R_container_action, createResponse.data.Id, A_start,
               NoQuery, NoBody))

\* (server.js:468-475)
createContainerThenThen(args, createResponse) ==
    Return([NoText EXCEPT
              !.tmpl = "Container '${args.name}' created and started successfully! ID: ${Id}",
              !.name = PlainOf(args, "name", args.name),
              !.id = substring(createResponse.data.Id, 0, 12)])

\* listImages() (server.js:478-479)
listImages == Await(Call("GET", R_images_json, <<>>, <<>>, NoQuery, NoBody))

\* (server.js:481-497)
ImageLine(img) ==
    [NoLine EXCEPT !.id = substring(img.Id, 7, 19),
                   !.text = join(IF "RepoTags" \in img.has THEN img.RepoTags
                                 ELSE << "<none>" >>, ", ")]

listImagesThen(response) ==
    LET list == response.data.list IN
    Return([NoText EXCEPT !.tmpl = "Found ${images.length} images:",
                          !.count = Len(list),
                          !.lines = [i \in 1..Len(list) |-> ImageLine(list[i])]])

\* listVolumes() (server.js:500-501)
listVolumes == Await(Call("GET", R_volumes, <<>>, <<>>, NoQuery, NoBody))

\* (server.js:502-513)
listVolumesThen(response) ==
    LET volumes == IF "Volumes" \in response.data.has THEN response.data.list ELSE <<>> IN
    Return([NoText EXCEPT !.tmpl = "Found ${volumes.length} volumes:",
                          !.count = Len(volumes),
                          !.lines = [i \in 1..Len(volumes) |->
                                       [NoLine EXCEPT !.name = volumes[i].Name]]])

\* listNetworks() (server.js:516-517)
listNetworks == Await(Call("GET", R_networks, <<>>, <<>>, NoQuery, NoBody))

\* (server.js:519-535)
listNetworksThen(response) ==
    LET list == response.data.list IN
    Return([NoText EXCEPT !.tmpl = "Found ${networks.length} networks:",
                          !.count = Len(list),
                          !.lines = [i \in 1..Len(list) |->
                                       [NoLine EXCEPT !.id = substring(list[i].Id, 0, 12),
                                                      !.name = list[i].Name]]])

\* getSystemInfo() (server.js:538-539)
getSystemInfo == Await(Call("GET", R_info, <<>>, <<>>, NoQuery, NoBody))

\* (server.js:540-558)
getSystemInfoThen(response) ==
    Return([NoText EXCEPT !.tmpl = "Docker System Information:",
                          !.body = response.data.raw])

\* deployStack(args) (server.js:561-572)
deployStack(args) ==
    Await(Call("POST", R_stacks, <<>>, <<>>, NoQuery,
               [NoBody EXCEPT !.kind = "stack",
                              !.name = PlainOf(args, "name", args.name),
                              !.StackFileContent =
                                  PlainOf(args, "compose_content", args.compose_content),
                              !.Env = IF Given(args, "env") THEN args.env ELSE <<>>]))

\* (server.js:574-581)
deployStackThen(args, response) ==
    Return([NoText EXCEPT
              !.tmpl = "Stack '${args.name}' deployed successfully! Stack ID: ${Id}",
              !.name = PlainOf(args, "name", args.name),
              !.body = response.data.raw])

-----------------------------------------------------------------------------
\* The CallToolRequestSchema handler (server.js:255-342)

WarningAction(args) ==
    [NoText EXCEPT
       !.tmpl = "This action (${args.action}) requires confirmation. Please set confirm=true to proceed.",
       !.action = args.action]

WarningCreate ==
    [NoText EXCEPT
       !.tmpl = "Creating a container requires confirmation. Please set confirm=true to proceed."]

WarningDeploy ==
    [NoText EXCEPT
       !.tmpl = "Deploying a stack requires confirmation. Please set confirm=true to proceed."]

\* case 'portainer_container_action' (server.js:276-287);
\* requiresConfirmation(undefined) throws at action.toLowerCase()
CaseContainerActionUngated(args) == containerAction(args)
CaseContainerAction(args) ==
    IF ~Given(args, "action") THEN Throw(TypeError)
    ELSE IF requiresConfirmation(args.action) /\ NotConfirmed(args)
    THEN Return(WarningAction(args))
    ELSE containerAction(args)

\* case 'portainer_create_container' (server.js:289-300)
CaseCreateContainer(args) ==
    IF NotConfirmed(args) THEN Return(WarningCreate) ELSE createContainer(args)

\* case 'portainer_deploy_stack' (server.js:314-325)
CaseDeployStack(args) ==
    IF NotConfirmed(args) THEN Return(WarningDeploy) ELSE deployStack(args)

\* default (server.js:327-331)
CaseDefault(name) ==
    Throw(McpError("MethodNotFound",
                   [NoText EXCEPT !.tmpl = "Unknown tool: ${name}", !.name = name]))

\* Whether the case of the switch reads a property of `args`, which throws a
\* TypeError when the request carries no arguments object.
ReadsArgs(name) ==
    name \in { T_list_containers, T_container_info, T_container_logs,
               T_container_action, T_create_container, T_deploy_stack }

\* the switch, up to the first await of the handler it calls (server.js:266-332)
Switch(req) ==
    IF ReadsArgs(req.name) /\ ~req.hasArgs THEN Throw(TypeError)
    ELSE CASE req.name = T_list_containers  -> listContainers(req.args)
           [] req.name = T_container_info   -> getContainerInfo(req.args)
           [] req.name = T_container_logs   -> getContainerLogs(req.args)
           [] req.name = T_container_action -> CaseContainerAction(req.args)
           [] req.name = T_create_container -> CaseCreateContainer(req.args)
           [] req.name = T_list_images      -> listImages
           [] req.name = T_list_volumes     -> listVolumes
           [] req.name = T_list_networks    -> listNetworks
           [] req.name = T_system_info      -> getSystemInfo
           [] req.name = T_deploy_stack     -> CaseDeployStack(req.args)
           [] OTHER                         -> CaseDefault(req.name)

\* the error axios throws for the answer `resp` (a rejected await)
AxiosError(resp) ==
    [cls |-> "AxiosError", code |-> resp.code,
     text |-> [NoText EXCEPT !.tmpl = "${error.message}", !.body = resp.message],
     response |-> IF resp.kind = "http"
                  THEN [present |-> TRUE, status |-> resp.status, data |-> resp.data]
                  ELSE NoResponse]

\* an await whose call fails throws the error of axios; no handler catches it
RejectedRetriesCall(issued) == Await([issued[Len(issued)] EXCEPT !.resp = Pending])
Rejected(issued) == Throw(AxiosError(issued[Len(issued)].resp))

\* the handler from the answer to its latest call on, up to its next await
\* or its end; `issued` holds the calls so far, the latest one answered
Resume(req, issued) ==
    LET response == issued[Len(issued)].resp IN
    IF response.kind # "ok" THEN Rejected(issued)
    ELSE CASE req.name = T_list_containers  -> listContainersThen(response)
           [] req.name = T_container_info   -> getContainerInfoThen(response)
           [] req.name = T_container_logs   -> getContainerLogsThen(req.args, response)
           [] req.name = T_container_action -> containerActionThen(req.args)
           [] req.name = T_create_container ->
                IF Len(issued) = 1 THEN createContainerThen(response)
                ELSE createContainerThenThen(req.args, issued[1].resp)
           [] req.name = T_list_images      -> listImagesThen(response)
           [] req.name = T_list_volumes     -> listVolumesThen(response)
           [] req.name = T_list_networks    -> listNetworksThen(response)
           [] req.name = T_system_info      -> getSystemInfoThen(response)
           [] req.name = T_deploy_stack     -> deployStackThen(req.args, response)

\* try { ... } catch (error) { ... } around a stretch (server.js:265, 333-341)
TryCatch(stretch) ==
    IF stretch.kind = "throw" THEN Throw(Catch(stretch.error)) ELSE stretch

\* the handler from its entry to its first await or its end (server.js:255-342)
HandlerEntry(token, req) ==
    IF TokenMissing(token)
    THEN Throw(McpError("InternalError",
                        [NoText EXCEPT !.tmpl = "PORTAINER_TOKEN not configured"]))
    ELSE TryCatch(Switch(req))

-----------------------------------------------------------------------------
\* The remote API, as far as the handlers' calls change it

IdA == <<"a","1","b","2","c","3","d","4","e","5","f","6","0","7">>
IdB == <<"b","1","b","2","c","3","d","4","e","5","f","6","0","8">>
IdC == <<"c","1","b","2","c","3","d","4","e","5","f","6","0","9">>

RemoteIds == {IdA, IdB, IdC}

\* the longest listing the remote answers with
MaxItems == 1

\* the listings over the items of I
Listings(I) == UNION { [1..n -> I] : n \in 0..MaxItems }

\* an entry of a listing; `has` names the optional fields it carries
NoItem ==
    [Id |-> <<>>, Name |-> <<>>, has |-> {}, Ports |-> <<>>, RepoTags |-> <<>>]

Sha256Id == <<"s","h","a","2","5","6",":">> \o IdC

\* entries of GET /containers/json: the port list absent, empty, published
\* and unpublished
ContainerItems ==
    { [NoItem EXCEPT !.Id = IdA, !.Name = <<"/","w","e","b">>] }
    \cup { [NoItem EXCEPT !.Id = IdA, !.Name = <<"/","w","e","b">>,
                          !.has = {"Ports"}, !.Ports = ps] :
             ps \in { <<>>, << [PublicPort |-> 8080, PrivatePort |-> 80] >>,
                      << [PublicPort |-> 0, PrivatePort |-> 443] >> } }

\* entries of GET /images/json: RepoTags absent (or null) and present
ImageItems ==
    { [NoItem EXCEPT !.Id = Sha256Id],
      [NoItem EXCEPT !.Id = Sha256Id, !.has = {"RepoTags"},
                     !.RepoTags = << "nginx:latest" >>] }

VolumeItems == { [NoItem EXCEPT !.Name = <<"d","a","t","a">>] }

NetworkItems == { [NoItem EXCEPT !.Id = IdB, !.Name = <<"b","r","i","d","g","e">>] }

\* the bodies of GET /containers/<id>/json: Mounts absent, empty and
\* filled; Config.Env absent (or null) and filled
InspectBodies ==
    { [NoData EXCEPT !.raw = "{container}", !.Id = IdA, !.has = h,
                     !.Mounts = IF "Mounts" \in h THEN ms ELSE <<>>,
                     !.Env = IF "Env" \in h THEN << "A=1" >> ELSE <<>>] :
        h \in SUBSET {"Mounts", "Env"},
        ms \in { <<>>, << [Source |-> "/srv", Destination |-> "/data"] >> } }

\* the bodies a 2xx answer of the route may carry
OkBodies(route) ==
    CASE route = R_containers_json ->
           { [NoData EXCEPT !.raw = "[containers]", !.list = l] :
               l \in Listings(ContainerItems) }
      [] route = R_container_json -> InspectBodies
      [] route = R_images_json ->
           { [NoData EXCEPT !.raw = "[images]", !.list = l] : l \in Listings(ImageItems) }
      [] route = R_volumes ->
           { [NoData EXCEPT !.raw = "{Volumes}", !.has = {"Volumes"}, !.list = l] :
               l \in Listings(VolumeItems) }
           \cup { [NoData EXCEPT !.raw = "{Volumes:null}"] }
      [] route = R_networks ->
           { [NoData EXCEPT !.raw = "[networks]", !.list = l] :
               l \in Listings(NetworkItems) }
      [] route = R_container_logs -> { [NoData EXCEPT !.isText = TRUE, !.raw = "data"] }
      [] OTHER -> { [NoData EXCEPT !.raw = "data"] }

\* the answers of the remote: a 2xx answer with a body, an answer outside 2xx
\* with a body, and no answer at all
OkAnswers(call, rem) ==
    IF call.route = R_containers_create
    THEN { [kind |-> "ok", status |-> 201,
            data |-> [NoData EXCEPT !.raw = "{Id}", !.Id = i],
            code |-> "", message |-> ""] : i \in { j \in RemoteIds : rem[j] = "absent" } }
    ELSE { [kind |-> "ok", status |-> 200, data |-> d, code |-> "", message |-> ""] :
             d \in OkBodies(call.route) }

HttpErrorAnswers ==
    { [kind |-> "http", status |-> st, data |-> d, code |-> "ERR_BAD_REQUEST",
       message |-> "Request failed with status code"] :
        st \in {404, 500},
        d \in { [NoData EXCEPT !.raw = "{message}"],
                [NoData EXCEPT !.isText = TRUE, !.raw = "Unauthorized"] } }

TransportFailures ==
    { [kind |-> "transport", status |-> 0, data |-> NoData, code |-> c, message |-> m] :
        <<c, m>> \in { <<"ECONNREFUSED", "connect ECONNREFUSED">>,
                       <<"ETIMEDOUT", "connect ETIMEDOUT">> } }

A_pause   == <<"p","a","u","s","e">>
A_unpause == <<"u","n","p","a","u","s","e">>

\* what a call answered with 2xx has done at the remote
RemoteEffect(rem, call) ==
    IF call.resp.kind # "ok" THEN rem
    ELSE IF call.route = R_containers_create
    THEN [rem EXCEPT ![call.resp.data.Id] = "created"]
    ELSE IF call.route = R_container_action /\ call.id \in RemoteIds
    THEN IF rem[call.id] = "absent" THEN rem
         ELSE IF call.action \in {A_start, W_restart} THEN [rem EXCEPT ![call.id] = "running"]
         ELSE IF call.action \in {W_stop, W_kill} THEN [rem EXCEPT ![call.id] = "exited"]
         ELSE rem
    ELSE rem

-----------------------------------------------------------------------------
\* The requests of the model

A_Stop       == <<"S","t","o","p">>
A_force_stop == <<"f","o","r","c","e","-","s","t","o","p">>

ActionInputs ==
    { A_start, W_stop, W_restart, A_pause, A_unpause, W_kill, A_Stop, A_force_stop }

ContainerIdInputs == {IdA, IdB}

\* the arguments objects of A, each also with field f set to a value of V
Opt(A, f, V) ==
    A \cup { [a EXCEPT !.given = @ \cup {f}, ![f] = v] : a \in A, v \in V }

\* the arguments objects of A with field f set to a value of V
Req(A, f, V) == { [a EXCEPT !.given = @ \cup {f}, ![f] = v] : a \in A, v \in V }

PortInputs ==
    { << [host |-> 8080, container |-> 80] >>,
      << [host |-> 8080, container |-> 80], [host |-> 9090, container |-> 80] >> }

VolumeInputs == { << [host |-> "/srv", container |-> "/data"] >> }

ArgsInputs(name) ==
    CASE name = T_list_containers -> Opt({EmptyArgs}, "all", BOOLEAN)
      [] name = T_container_info -> Opt({EmptyArgs}, "container_id", ContainerIdInputs)
      [] name = T_container_logs ->
            Opt(Req({EmptyArgs}, "container_id", ContainerIdInputs), "tail", {5})
      [] name = T_container_action ->
            Opt(Opt(Req({EmptyArgs}, "container_id", ContainerIdInputs),
                    "action", ActionInputs), "confirm", BOOLEAN)
      [] name = T_create_container ->
            Opt(Opt(Opt(Opt(Req(Req({EmptyArgs}, "name", {"web"}), "image", {"nginx"}),
                            "confirm", BOOLEAN), "ports", PortInputs),
                    "volumes", VolumeInputs), "restart_policy", {"always"})
      [] name = T_deploy_stack ->
            Opt(Opt(Req(Req({EmptyArgs}, "name", {"blog"}), "compose_content", {"services:"}),
                    "confirm", BOOLEAN), "env", { << "A=1" >> })
      [] OTHER -> Opt({EmptyArgs}, "confirm", {TRUE})

ToolNameInputs == SwitchCases \cup {"foo_bar", "list_containers"}

Requests ==
    { [name |-> n, hasArgs |-> TRUE, args |-> a] :
        <<n, a>> \in UNION { {n} \X ArgsInputs(n) : n \in ToolNameInputs } }
    \cup { [name |-> n, hasArgs |-> FALSE, args |-> EmptyArgs] : n \in ToolNameInputs }

NoRequest == [name |-> "", hasArgs |-> FALSE, args |-> EmptyArgs]

\* no invocation kept
NoMemo ==
    [taken |-> FALSE, token |-> [set |-> FALSE, value |-> ""], request |-> NoRequest,
     calls |-> <<>>, outcome |-> NoOutcome]

-----------------------------------------------------------------------------
\* The state machine of tool invocations. The transport delivers one call at
\* a time; a handler runs from await to await.

Init ==
    /\ PORTAINER_TOKEN \in TokenValues
    /\ pc = "idle"
    /\ request = NoRequest
    /\ calls = <<>>
    /\ outcome = NoOutcome
    /\ remote = [i \in RemoteIds |-> IF i = IdA THEN "running" ELSE "absent"]
    /\ rcInput = <<>>
    /\ rcResult = FALSE
    /\ memo = NoMemo
    /\ listed = <<>>

\* the handler has run the stretch: it has issued the call it awaits, or
\* has returned or thrown
Proceed(stretch, issued) ==
    /\ calls' = IF stretch.kind = "await" THEN Append(issued, stretch.call) ELSE issued
    /\ outcome' = CASE stretch.kind = "await"  -> NoOutcome
                    [] stretch.kind = "return" -> ToolResult(stretch.text)
                    [] stretch.kind = "throw"  -> Thrown(stretch.error)
    /\ pc' = IF stretch.kind = "await" THEN "await" ELSE "done"

\* a tools/call request arrives and the handler runs to its first await
CallTool(req) ==
    /\ pc = "idle"
    /\ request' = req
    /\ Proceed(HandlerEntry(PORTAINER_TOKEN, req), <<>>)
    /\ UNCHANGED <<PORTAINER_TOKEN, remote, rcInput, rcResult, memo, listed>>

\* the awaited call is answered and the handler runs on
Answer(resp) ==
    /\ pc = "await"
    /\ LET issued == [calls EXCEPT ![Len(calls)].resp = resp] IN
         /\ remote' = RemoteEffect(remote, issued[Len(issued)])
         /\ Proceed(TryCatch(Resume(request, issued)), issued)
    /\ UNCHANGED <<PORTAINER_TOKEN, request, rcInput, rcResult, memo, listed>>

AnswerOk ==
    /\ pc = "await"
    /\ \E resp \in OkAnswers(calls[Len(calls)], remote) : Answer(resp)

AnswerHttpError == \E resp \in HttpErrorAnswers : Answer(resp)

AnswerTransportFailure == \E resp \in TransportFailures : Answer(resp)

\* the outcome has been sent; the next call may arrive
Respond ==
    /\ pc = "done"
    /\ pc' = "idle"
    /\ request' = NoRequest
    /\ calls' = <<>>
    /\ outcome' = NoOutcome
    /\ UNCHANGED <<PORTAINER_TOKEN, remote, rcInput, rcResult, memo, listed>>

\* a tools/list request arrives and is answered with the registry
ListTools ==
    /\ listed' = tools
    /\ UNCHANGED <<PORTAINER_TOKEN, pc, request, calls, outcome, remote, rcInput, rcResult, memo>>

Next ==
    \/ ListTools
    \/ \E req \in Requests : CallTool(req)
    \/ AnswerOk
    \/ AnswerHttpError
    \/ AnswerTransportFailure
    \/ Respond

Spec == Init /\ [][Next]_vars

-----------------------------------------------------------------------------
\* Invocations one after another, one of them kept for comparison: the
\* handler keeps nothing itself, so what is kept here is a record of the run,
\* not state of the server.

\* the requests of this specification: each gated tool with and without
\* confirm, a listing, a tool called without arguments, an unknown tool
HistRequests ==
    { r \in Requests :
        \/ /\ r.name = T_container_action
           /\ r.hasArgs
           /\ r.args.given \in { {"container_id", "action"},
                                 {"container_id", "action", "confirm"} }
           /\ r.args.container_id = IdA
           /\ r.args.action \in {W_stop, A_start}
           /\ "confirm" \in r.args.given => r.args.confirm
        \/ /\ r.name \in {T_create_container, T_deploy_stack}
           /\ r.hasArgs
           /\ r.args.given \in { {"name", "image"}, {"name", "image", "confirm"},
                                 {"name", "compose_content"},
                                 {"name", "compose_content", "confirm"} }
           /\ "confirm" \in r.args.given => r.args.confirm
        \/ r.name = T_list_containers /\ r.hasArgs /\ r.args.given = {}
        \/ r.name = T_list_images /\ ~r.hasArgs
        \/ r.name = "foo_bar" /\ ~r.hasArgs }

\* the invocation that has ended is kept, if none was kept before
Remember ==
    /\ pc = "done"
    /\ ~memo.taken
    /\ memo' = [taken |-> TRUE, token |-> PORTAINER_TOKEN, request |-> request,
                calls |-> calls, outcome |-> outcome]
    /\ UNCHANGED <<PORTAINER_TOKEN, pc, request, calls, outcome, remote, rcInput, rcResult, listed>>

NextH ==
    \/ \E req \in HistRequests : CallTool(req)
    \/ AnswerOk
    \/ AnswerHttpError
    \/ AnswerTransportFailure
    \/ Respond
    \/ Remember

SpecH == Init /\ [][NextH]_vars

-----------------------------------------------------------------------------
\* requiresConfirmation as a function of its argument: the argument is drawn
\* at the start and the function is applied to it.

\* the longest text put before and after a word
MaxPad == 1

UpperChar(c) ==
    IF \E k \in 1..Len(LowerLetters) : LowerLetters[k] = c
    THEN UpperLetters[CHOOSE k \in 1..Len(LowerLetters) : LowerLetters[k] = c]
    ELSE c

\* the spellings of w in upper and lower case
CaseVariants(w) ==
    { [i \in 1..Len(w) |-> IF i \in S THEN UpperChar(w[i]) ELSE w[i]] :
        S \in SUBSET (1..Len(w)) }

Pads == UNION { [1..n -> {"x", "-"}] : n \in 0..MaxPad }

RCWords ==
    { W_remove, W_delete, W_stop, W_restart, W_kill, W_prune,
      A_start, A_pause, A_unpause, A_force_stop,
      <<>>, <<"s","t","o">>, <<"s","t","p","o">>, <<"k","i","l">>,
      <<"p","r","u","n">>, <<"r","e","m","o","v">>, <<"d","e","l","e","t">>,
      <<"r","e","s","t","a","r">>, <<"s","-","t","o","p">>,
      <<"s","t","o","k","i","l","l">> }

RCInputs ==
    { p \o v \o q : p \in Pads, q \in Pads,
                    v \in UNION { CaseVariants(w) : w \in RCWords } }

InitRC ==
    /\ PORTAINER_TOKEN = [set |-> TRUE, value |-> "ptr_key"]
    /\ pc = "rc"
    /\ request = NoRequest
    /\ calls = <<>>
    /\ outcome = NoOutcome
    /\ remote = [i \in RemoteIds |-> "absent"]
    /\ rcInput \in RCInputs
    /\ rcResult = FALSE
    /\ memo = NoMemo
    /\ listed = <<>>

EvaluateRC ==
    /\ pc = "rc"
    /\ rcResult' = requiresConfirmation(rcInput)
    /\ pc' = "rc_done"
    /\ UNCHANGED <<PORTAINER_TOKEN, request, calls, outcome, remote, rcInput, memo, listed>>

NextRC == EvaluateRC

SpecRC == InitRC /\ [][NextRC]_vars

-----------------------------------------------------------------------------
\* Vocabulary of the claims

\* an invocation is under way or has ended, and has not been cleared yet
Invoked == pc \in {"await", "done"}

\* the variable is unset, or set to the empty string: the code's test,
\* !PORTAINER_TOKEN, takes both for an absent credential
TokenAbsent == ~PORTAINER_TOKEN.set \/ PORTAINER_TOKEN.value = ""

TokenConfigured == PORTAINER_TOKEN.set /\ PORTAINER_TOKEN.value # ""

\* the call carries an arguments object
WithArgs == request.hasArgs

ConfirmOmittedOrFalse ==
    ~("confirm" \in request.args.given) \/ request.args.confirm = FALSE

ConfirmSet == "confirm" \in request.args.given /\ request.args.confirm = TRUE

IsWarning(o) ==
    /\ o.kind = "result"
    /\ o.text.tmpl \in
         { "This action (${args.action}) requires confirmation. Please set confirm=true to proceed.",
           "Creating a container requires confirmation. Please set confirm=true to proceed.",
           "Deploying a stack requires confirmation. Please set confirm=true to proceed." }

Failed(call) == call.resp.kind \in {"http", "transport"}

-----------------------------------------------------------------------------
\* C1: when PORTAINER_TOKEN is absent, every invocation, whatever the tool
\* name and the arguments, ends at once with the error 'PORTAINER_TOKEN not
\* configured' (an InternalError of the protocol), and no remote call is
\* issued: the check precedes the dispatch, so neither the unknown-tool error
\* nor a warning nor a handler is reached.
C1_MissingTokenFailsBeforeDispatch ==
    (Invoked /\ TokenAbsent) =>
        /\ pc = "done"
        /\ calls = <<>>
        /\ outcome.kind = "error"
        /\ outcome.error.cls = "McpError"
        /\ outcome.error.code = "InternalError"
        /\ outcome.error.text.tmpl = "PORTAINER_TOKEN not configured"

\* a confirmed create_container call and a call of an unknown tool are both
\* possible ends; the witness is the mutating one
C1_Witness ==
    /\ pc = "done"
    /\ TokenAbsent
    /\ request.name = T_create_container
    /\ WithArgs /\ ConfirmSet
    /\ outcome.error.text.tmpl = "PORTAINER_TOKEN not configured"
    /\ calls = <<>>

\* C2: a container_action invocation whose action requires confirmation and
\* whose confirm is omitted or false issues no remote call, for every
\* container_id; on a configured server it returns the warning as a
\* successful result, not as an error.
C2_UnconfirmedActionWarnsWithoutCall ==
    ( /\ Invoked
      /\ request.name = T_container_action
      /\ WithArgs
      /\ "action" \in request.args.given
      /\ requiresConfirmation(request.args.action)
      /\ ConfirmOmittedOrFalse ) =>
        /\ pc = "done"
        /\ calls = <<>>
        /\ TokenConfigured =>
             /\ IsWarning(outcome)
             /\ outcome.text.action = request.args.action

C2_Witness ==
    /\ pc = "done"
    /\ TokenConfigured
    /\ request.name = T_container_action
    /\ request.args.action = W_stop
    /\ request.args.container_id = IdA
    /\ ~("confirm" \in request.args.given)
    /\ IsWarning(outcome)
    /\ calls = <<>>

\* C3: create_container and deploy_stack are gated whatever the arguments:
\* with confirm omitted or false the invocation issues no remote call and, on
\* a configured server called with an arguments object, returns the warning
\* as a successful result; an invocation of these tools that has issued any
\* remote call (create, start, stack) has its confirm flag set.
C3_CreateAndDeployAlwaysGated ==
    (Invoked /\ request.name \in {T_create_container, T_deploy_stack}) =>
        /\ ConfirmOmittedOrFalse =>
             /\ pc = "done"
             /\ calls = <<>>
             /\ (TokenConfigured /\ WithArgs) => IsWarning(outcome)
        /\ calls # <<>> => ConfirmSet

C3_Witness ==
    /\ pc = "done"
    /\ TokenConfigured
    /\ request.name = T_deploy_stack
    /\ WithArgs
    /\ "confirm" \in request.args.given /\ request.args.confirm = FALSE
    /\ "env" \in request.args.given
    /\ IsWarning(outcome)
    /\ calls = <<>>

\* the markers and the comparison of C4, spelled out apart from the code
C4_Markers ==
    { <<"r","e","m","o","v","e">>, <<"d","e","l","e","t","e">>, <<"s","t","o","p">>,
      <<"r","e","s","t","a","r","t">>, <<"k","i","l","l">>, <<"p","r","u","n","e">> }

C4_SameLetter(c, d) ==
    \/ c = d
    \/ \E k \in 1..26 : {c, d} = {UpperLetters[k], LowerLetters[k]}

C4_Contains(s, m) ==
    \E off \in 0..(Len(s) - Len(m)) :
        \A j \in 1..Len(m) : C4_SameLetter(s[off + j], m[j])

\* C4: requiresConfirmation(actionName) is true exactly when actionName,
\* letters compared without regard to case, contains one of remove, delete,
\* stop, restart, kill, prune as a substring; so it is true of stop, restart,
\* kill, prune, remove, delete and force-stop, and false of start, pause and
\* unpause.
C4_RequiresConfirmationIffMarker ==
    pc = "rc_done" =>
        /\ rcResult = (\E m \in C4_Markers : C4_Contains(rcInput, m))
        /\ rcInput \in C4_Markers \cup { <<"f","o","r","c","e","-","s","t","o","p">> }
             => rcResult = TRUE
        /\ rcInput \in { <<"s","t","a","r","t">>, <<"p","a","u","s","e">>,
                         <<"u","n","p","a","u","s","e">> }
             => rcResult = FALSE

\* a marker in mixed case inside a longer name
C4_Witness ==
    /\ pc = "rc_done"
    /\ rcInput = <<"f","o","r","c","e","-","S","t","O","p","x">>
    /\ rcResult = TRUE

\* the invocations C5 is about
C5_Applies ==
    /\ Invoked
    /\ TokenConfigured
    /\ request.name = T_container_action
    /\ WithArgs
    /\ "action" \in request.args.given
    /\ ConfirmSet \/ ~requiresConfirmation(request.args.action)

\* C5: a container_action invocation (configured server, action a string)
\* with confirm true, or with an action that requires no confirmation, issues
\* exactly one remote call, the POST of that action on that container; when
\* that call is answered without error the result is the success message
\* naming the action and the container id; no second call follows.
C5_ActionIssuesExactlyOneCall ==
    C5_Applies =>
        /\ Len(calls) = 1
        /\ calls[1].method = "POST"
        /\ calls[1].route = "/containers/${containerId}/${action}"
        /\ calls[1].id = request.args.container_id
        /\ calls[1].action = request.args.action
        /\ pc = "await" <=> calls[1].resp.kind = "pending"
        /\ calls[1].resp.kind = "ok" =>
             /\ outcome.kind = "result"
             /\ outcome.text.tmpl =
                  "Successfully performed '${action}' on container ${containerId}"
             /\ outcome.text.action = request.args.action
             /\ outcome.text.id = request.args.container_id

\* unpause without confirm, answered without error
C5_Witness ==
    /\ C5_Applies
    /\ pc = "done"
    /\ request.args.action = <<"u","n","p","a","u","s","e">>
    /\ ~("confirm" \in request.args.given)
    /\ calls[1].resp.kind = "ok"
    /\ outcome.kind = "result"

\* the invocations C6 is about
C6_Applies ==
    /\ Invoked
    /\ TokenConfigured
    /\ request.name = T_create_container
    /\ WithArgs /\ ConfirmSet

\* C6: a confirmed create_container invocation issues create, then start:
\* start is issued only once create has been answered without error, on the
\* id that answer carries; when create fails, start is never issued; a
\* successful result means exactly two remote calls were made.
C6_CreateThenStart ==
    C6_Applies =>
        /\ Len(calls) \in {1, 2}
        /\ calls[1].method = "POST" /\ calls[1].route = "/containers/create"
        /\ Len(calls) = 2 =>
             /\ calls[1].resp.kind = "ok"
             /\ calls[2].method = "POST"
             /\ calls[2].route = "/containers/${containerId}/${action}"
             /\ calls[2].action = <<"s","t","a","r","t">>
             /\ calls[2].id = calls[1].resp.data.Id
        /\ Failed(calls[1]) => (Len(calls) = 1 /\ pc = "done")
        /\ calls[1].resp.kind = "ok" => Len(calls) = 2
        /\ outcome.kind = "result" =>
             /\ Len(calls) = 2
             /\ calls[1].resp.kind = "ok" /\ calls[2].resp.kind = "ok"

C6_Witness ==
    /\ C6_Applies
    /\ pc = "done"
    /\ outcome.kind = "result"
    /\ Len(calls) = 2
    /\ calls[2].id = IdB
    /\ "ports" \in request.args.given

\* the case of C7: create answered without error, start failed
C7_Case ==
    /\ C6_Applies
    /\ Len(calls) >= 2
    /\ calls[1].resp.kind = "ok"
    /\ Failed(calls[2])

\* C7: when, in a confirmed create_container invocation, create succeeds and
\* start fails, the invocation ends with an error and issues no further
\* remote call (no delete, no second start): the container stays created and
\* not started at the remote.
C7_StartFailureNotRolledBack ==
    C7_Case =>
        /\ pc = "done"
        /\ Len(calls) = 2
        /\ outcome.kind = "error"
        /\ remote[calls[1].resp.data.Id] = "created"

C7_Witness ==
    /\ C7_Case
    /\ pc = "done"
    /\ calls[2].resp.kind = "transport"
    /\ remote[IdB] = "created"

\* the invocations C8 is about
C8_Case ==
    /\ Invoked
    /\ TokenConfigured
    /\ request.name \notin
         { "portainer_list_containers", "portainer_container_info",
           "portainer_container_logs", "portainer_container_action",
           "portainer_create_container", "portainer_list_images",
           "portainer_list_volumes", "portainer_list_networks",
           "portainer_system_info", "portainer_deploy_stack" }

\* C8: on a configured server, invoking a name the switch does not know
\* (e.g. foo_bar) fails with the MethodNotFound error whose message carries
\* the requested name, with no remote call; the catch hands the error on
\* unchanged, not as another kind of error.
C8_UnknownToolIsMethodNotFound ==
    C8_Case =>
        /\ pc = "done"
        /\ calls = <<>>
        /\ outcome.kind = "error"
        /\ outcome.error.cls = "McpError"
        /\ outcome.error.code = "MethodNotFound"
        /\ outcome.error.text.tmpl = "Unknown tool: ${name}"
        /\ outcome.error.text.name = request.name

C8_Witness ==
    /\ C8_Case
    /\ pc = "done"
    /\ request.name = "foo_bar"
    /\ ~WithArgs
    /\ outcome.error.code = "MethodNotFound"
    /\ outcome.error.text.name = "foo_bar"

\* the error C9 expects for a failed call
C9_ApiError(call) ==
    [cls |-> "McpError", code |-> "InternalError",
     text |-> [NoText EXCEPT !.tmpl = "Portainer API error: ${status} - ${data}",
                             !.status = call.resp.status,
                             !.body = IF call.resp.data.isText
                                      THEN "\"" \o call.resp.data.raw \o "\""
                                      ELSE call.resp.data.raw],
     response |-> NoResponse]

\* C9: in every handler, a remote call answered with a status outside 2xx
\* ends the invocation with the same error for all tools, an InternalError
\* 'Portainer API error: <status> - <body>' carrying that status and the
\* JSON text of that body; the failed call is the invocation's last call, so
\* nothing is retried.
C9_HttpFailureIsUniformErrorNoRetry ==
    \A i \in 1..Len(calls) :
        calls[i].resp.kind = "http" =>
            /\ i = Len(calls)
            /\ pc = "done"
            /\ outcome.kind = "error"
            /\ outcome.error = C9_ApiError(calls[i])

\* the start call of create_container answered 500 with a text body
C9_Witness ==
    /\ pc = "done"
    /\ request.name = T_create_container
    /\ Len(calls) = 2
    /\ calls[2].resp.kind = "http"
    /\ calls[2].resp.status = 500
    /\ calls[2].resp.data.isText
    /\ outcome.error.text.status = 500
    /\ outcome.error.text.body = "\"Unauthorized\""

\* C10: a remote call that fails without an HTTP answer ends the invocation
\* with an error, the one axios threw, whose message is the text of the
\* transport error; and no failure of a remote call is swallowed: an
\* invocation in which a call failed never ends with a result, and ends with
\* that call.
C10_TransportFailureSurfacesAsError ==
    \A i \in 1..Len(calls) :
        /\ calls[i].resp.kind = "transport" =>
             /\ i = Len(calls)
             /\ pc = "done"
             /\ outcome.kind = "error"
             /\ outcome.error.cls = "AxiosError"
             /\ outcome.error.text.body = calls[i].resp.message
        /\ Failed(calls[i]) =>
             /\ pc = "done"
             /\ outcome.kind = "error"
             /\ outcome.error.cls # ""

\* the remote is unreachable for a read-only tool
C10_Witness ==
    /\ pc = "done"
    /\ request.name = T_list_networks
    /\ Len(calls) = 1
    /\ calls[1].resp.kind = "transport"
    /\ calls[1].resp.code = "ECONNREFUSED"
    /\ outcome.kind = "error"
    /\ outcome.error.text.body = "connect ECONNREFUSED"

\* the invocations C11 is about: a listing or an inspection whose remote
\* call was answered without error
C11_Case ==
    /\ pc = "done"
    /\ request.name \in { T_list_containers, T_list_images, T_list_volumes,
                          T_list_networks, T_container_info }
    /\ Len(calls) = 1
    /\ calls[1].resp.kind = "ok"

\* C11: list_containers, list_images, list_volumes, list_networks and
\* container_info return a result whenever their remote call succeeds: an
\* empty listing is rendered 'Found 0 ...:' without item lines, and an absent
\* optional field (a container's port list, a container's mounts) is replaced
\* by a placeholder, not turned into an error.
C11_ListingsAlwaysRender ==
    C11_Case =>
        /\ outcome.kind = "result"
        /\ (request.name # T_container_info /\ calls[1].resp.data.list = <<>>) =>
             (outcome.text.count = 0 /\ outcome.text.lines = <<>>)
        /\ (request.name = T_list_containers) =>
             \A i \in 1..Len(calls[1].resp.data.list) :
                 calls[1].resp.data.list[i].Ports = <<>> =>
                     outcome.text.lines[i].text = "none"
        /\ (request.name = T_container_info /\ calls[1].resp.data.Mounts = <<>>) =>
             outcome.text.body = "  none"

\* what holds of the code: the same with every entry carrying its port list
\* and the inspection carrying Mounts and Config.Env
C11_RendersWhenFieldsPresent ==
    ( /\ C11_Case
      /\ \A i \in 1..Len(calls[1].resp.data.list) :
             request.name = T_list_containers => "Ports" \in calls[1].resp.data.list[i].has
      /\ request.name = T_container_info => {"Mounts", "Env"} \subseteq calls[1].resp.data.has )
    => C11_ListingsAlwaysRender

\* the answers the current invocation has received so far
C12_Answered == IF pc = "await" THEN Len(calls) - 1 ELSE Len(calls)

\* a call as issued, whatever its answer
C12_Issued(call) == [call EXCEPT !.resp = Pending]

\* the current invocation has the request of the kept one and, so far, the
\* answers the kept one received
C12_SameInputs ==
    /\ memo.taken
    /\ Invoked
    /\ memo.request = request
    /\ C12_Answered <= Len(memo.calls)
    /\ \A i \in 1..C12_Answered : memo.calls[i].resp = calls[i].resp

C13_TableNames ==
    { "list_containers", "container_info", "container_logs", "container_action",
      "create_container", "list_images", "list_volumes", "list_networks",
      "system_info", "deploy_stack" }

C13_TableRequired(n) ==
    CASE n \in {"container_info", "container_logs"} -> {"container_id"}
      [] n = "container_action" -> {"container_id", "action"}
      [] n = "create_container" -> {"name", "image", "confirm"}
      [] n = "deploy_stack"     -> {"name", "compose_content", "confirm"}
      [] OTHER                  -> {}

C13_Fields(d) == { d.required[i] : i \in DOMAIN d.required }

C13_ListedNames == { listed[i].name : i \in DOMAIN listed }

C13_MethodNotFound ==
    /\ outcome.kind = "error"
    /\ outcome.error.cls = "McpError"
    /\ outcome.error.code = "MethodNotFound"

\* the response to tools/list has, for each name of the table written after
\* the prefix, one descriptor with the table's required fields, and nothing
\* else; the dispatcher takes the listed names and no other
C13_Registry(prefix) ==
    listed # <<>> =>
        /\ \A n \in C13_TableNames :
             \E i \in DOMAIN listed :
                /\ listed[i].name = prefix \o n
                /\ C13_Fields(listed[i]) = C13_TableRequired(n)
                /\ Len(listed[i].required) = Cardinality(C13_TableRequired(n))
                /\ \A j \in DOMAIN listed : listed[j].name = listed[i].name => j = i
        /\ C13_ListedNames = { prefix \o n : n \in C13_TableNames }
        /\ C13_ListedNames = SwitchCases
        /\ Invoked =>
             IF request.name \in C13_ListedNames
             THEN ~C13_MethodNotFound
             ELSE /\ pc = "done"
                  /\ calls = <<>>
                  /\ outcome.kind = "error"
                  /\ TokenConfigured => C13_MethodNotFound

\* C13 as stated: tools/list returns, for every tool name of the table
\* (list_containers, container_info, container_logs, container_action,
\* create_container, list_images, list_volumes, list_networks, system_info,
\* deploy_stack), exactly one descriptor with that name whose required fields
\* are the table's, and the names listed are the names the dispatcher accepts.
C13_TableNamesListed == C13_Registry("")

\* C13, amended: tools/list returns, for every tool name of the table
\* prefixed with portainer_ (portainer_list_containers, ...,
\* portainer_deploy_stack), exactly one descriptor with that name whose
\* required fields are the table's Required column, and no other descriptor;
\* the names listed are exactly the names the dispatcher accepts, so no
\* invocation of a listed name ends in the MethodNotFound error and no
\* invocation of an unlisted name, the table's unprefixed names included,
\* reaches a handler or issues a remote call.
C13_PrefixedTableNamesListed == C13_Registry("portainer_")

\* the registry has been listed, and the table's own name list_containers has
\* been invoked on a configured server and refused as an unknown tool
C13_Witness ==
    /\ listed # <<>>
    /\ Len(listed) = 10
    /\ Invoked
    /\ pc = "done"
    /\ TokenConfigured
    /\ request.name = "list_containers"
    /\ C13_MethodNotFound
    /\ outcome.error.text.name = "list_containers"

====
